---- MODULE Spec2Model ----
(***************************************************************************)
(* A model of LAEH2 (lib/laeh2.js): the error check-and-throw helper _e,   *)
(* the try/catch wrapper _x for asynchronous callbacks, and the lean       *)
(* stack-trace formatter installed by leanStacks.                          *)
(*                                                                         *)
(* JavaScript values are records [t, s, n]: t is the type tag, s a string  *)
(* payload, n a numeric payload (an Error's place in the heap errs, a      *)
(* wrapper's place in wrappers).  Strings the library builds by            *)
(* concatenation are sequences of string tokens.                           *)
(***************************************************************************)
EXTENDS Integers, Sequences, FiniteSets, TLC

VARIABLES
    errs,       \* the heap of Error objects: <<[message, meta, prev]>>
    wrappers,   \* the closures returned by _x: <<[cb, chk, func, prev]>>, and
                \* with each the cb it was built with (cb0, never written again)
    saved,      \* the last value a user completion handler received
    last,       \* the outcome of the last operation: [op, w, args, ev, out]
    config,     \* the arguments of the installed leanStacks call
    installed,  \* whether Error.prepareStackTrace has been set by leanStacks
    render,     \* the last call of the installed formatter: [e, s, stack, text]
    stacks,     \* the stack texts V8 has formatted and keeps: {[e, text]}
    ncalls      \* how many operations have run (bounds the exploration)

vars == <<errs, wrappers, saved, last, config, installed, render, stacks, ncalls>>

----------------------------------------------------------------------------
(* Bounds of the exploration. *)

MaxWrappers == 2
MaxCalls == 3
MaxFrames == 3

----------------------------------------------------------------------------
(* JavaScript values. *)

Undef == [t |-> "undef", s |-> "", n |-> 0]
Null == [t |-> "null", s |-> "", n |-> 0]
False == [t |-> "bool", s |-> "", n |-> 0]
True == [t |-> "bool", s |-> "", n |-> 1]
Num(i) == [t |-> "num", s |-> "", n |-> i]
Str(x) == [t |-> "str", s |-> x, n |-> 0]
Obj(x) == [t |-> "obj", s |-> x, n |-> 0]
Fn(x) == [t |-> "fn", s |-> x, n |-> 0]
ErrRef(i) == [t |-> "err", s |-> "", n |-> i]
WrapRef(i) == [t |-> "wrap", s |-> "", n |-> i]

\* a variant of the test that takes only undefined and null as not set
TruthyNotNull(v) == v.t \notin {"undef", "null"}

\* if(v): every value is truthy but undefined, null, false, 0 and ''
Truthy(v) ==
    CASE v.t = "undef" -> FALSE
      [] v.t = "null" -> FALSE
      [] v.t = "bool" -> v.n = 1
      [] v.t = "num" -> v.n # 0
      [] v.t = "str" -> v.s # ""
      [] OTHER -> TRUE

\* v instanceof Error
IsError(v) == v.t = "err"

\* typeof(v) === 'function': user functions and the closures _x returns
IsFunction(v) == v.t \in {"fn", "wrap"}

\* String(v), the message new Error(v) gets, for the values of the model;
\* new Error(undefined) has the empty message
ToStr(v) ==
    CASE v.t = "undef" -> ""
      [] v.t = "null" -> "null"
      [] v.t = "bool" -> IF v.n = 1 THEN "true" ELSE "false"
      [] v.t = "num" -> IF v.n = 0 THEN "0" ELSE "1"
      [] v.t = "str" -> v.s
      [] v.t = "obj" -> "[object Object]"
      [] OTHER -> "function () {}"

\* new Error(v): a fresh object on the heap, with no meta and no prev
NewError(h, v) ==
    [errs |-> Append(h, [message |-> ToStr(v), meta |-> Undef, prev |-> Undef]),
     ref |-> ErrRef(Len(h) + 1)]

Ret == [k |-> "ret", v |-> Undef]
Throw(v) == [k |-> "throw", v |-> v]

----------------------------------------------------------------------------
(* exports._e = function(e, meta): check, wrap and throw. *)

\* a variant of _e that wraps whatever it gets, Errors included
_eAlwaysWrap(h, e, meta) ==
    IF Truthy(e)
    THEN LET n == NewError(h, e)
             h2 == IF Truthy(meta)
                   THEN [n.errs EXCEPT ![n.ref.n].meta = meta]
                   ELSE n.errs
         IN [errs |-> h2, out |-> Throw(n.ref)]
    ELSE [errs |-> h, out |-> Ret]

_e(h, e, meta) ==
    IF Truthy(e)
    THEN LET n == IF IsError(e) THEN [errs |-> h, ref |-> e] ELSE NewError(h, e)
             h2 == IF Truthy(meta)
                   THEN [n.errs EXCEPT ![n.ref.n].meta = meta]
                   ELSE n.errs
         IN [errs |-> h2, out |-> Throw(n.ref)]
    ELSE [errs |-> h, out |-> Ret]

----------------------------------------------------------------------------
(* The functions of the surrounding program: completion handlers and the   *)
(* callbacks handed to _x.  A completion handler is known by its name.  A  *)
(* wrapped callback is the program's own code: what it does on one call is *)
(* one of the behaviours Funcs, chosen anew for every call.                *)

\* h1 keeps what it gets; h2 keeps it and raises it again when it is set
Handlers == {"h1", "h2"}

\* what a wrapped callback may do on a call: return, raise a string, raise
\* null, raise a new Error, raise its first argument, raise the error a
\* handler kept or that error's prev, or call h1() and then raise a string
Funcs == {"fRet", "fThrowStr", "fThrowNull", "fThrowNew", "fThrowArg",
          "fThrowSaved", "fThrowSavedPrev", "fCbThrow"}

\* what the callback of a wrapper that serves as a completion handler does
\* with the error it is given: keep quiet, or raise it again
NestedFuncs == {"fRet", "fThrowArg"}

\* what a callback calls before it ends: nothing, or the handler h1 of the
\* enclosing scope (with no argument, as a success)
Pre(name) == IF name = "fCbThrow" THEN "callH1" ELSE "none"

\* how a callback ends
Out(name) ==
    CASE name = "fRet" -> "ret"
      [] name \in {"fThrowStr", "fCbThrow"} -> "throwStr"
      [] name = "fThrowNull" -> "throwNull"
      [] name = "fThrowNew" -> "throwNew"
      [] name = "fThrowArg" -> "throwArg"
      [] name = "fThrowSaved" -> "throwSaved"
      [] OTHER -> "throwSavedPrev"

\* a[i] of an arguments object: undefined past its end
Arg(a, i) == IF i <= Len(a) THEN a[i] ELSE Undef

NoArgs == << >>

\* one step of an operation, for the record of it: its kind k, the wrapper w
\* that took it, a function f, a value v and arguments a
Event(k, w, f, v, a) == [k |-> k, w |-> w, f |-> f, v |-> v, args |-> a]

Log(st, ev) == [st EXCEPT !.ev = Append(@, ev)]

\* the events of one kind in a log
Events(ev, k) == {i \in 1..Len(ev) : ev[i].k = k}

RECURSIVE Apply(_, _, _)

\* a completion handler of the program, called with the arguments a
HandlerBody(name, a, st) ==
    LET st1 == Log([st EXCEPT !.saved = Arg(a, 1)],
                   Event("handler", 0, Fn(name), Arg(a, 1), a))
    IN IF name = "h2" /\ Truthy(Arg(a, 1))
       THEN [st |-> Log(st1, Event("raise", 0, Fn(name), Arg(a, 1), a)),
             out |-> Throw(Arg(a, 1))]
       ELSE [st |-> Log(st1, Event("return", 0, Fn(name), Undef, a)), out |-> Ret]

\* the value a callback raises, and the heap after it was built
Raised(name, a, st) ==
    CASE Out(name) = "throwStr" -> [errs |-> st.errs, v |-> Str("boom")]
      [] Out(name) = "throwNull" -> [errs |-> st.errs, v |-> Null]
      [] Out(name) = "throwNew" ->
            LET n == NewError(st.errs, Str("fail")) IN [errs |-> n.errs, v |-> n.ref]
      [] Out(name) = "throwArg" -> [errs |-> st.errs, v |-> Arg(a, 1)]
      [] Out(name) = "throwSaved" -> [errs |-> st.errs, v |-> st.saved]
      [] OTHER ->
            [errs |-> st.errs,
             v |-> IF ~Truthy(st.saved) THEN st.saved
                   ELSE IF IsError(st.saved) THEN st.errs[st.saved.n].prev
                   ELSE Undef]

\* the callback of wrapper w, applied to the arguments a: the first callback
\* to run in an operation behaves as st.top, the later ones as st.nested
FuncBody(w, a, st) ==
    LET name == IF Events(st.ev, "func") = {} THEN st.top ELSE st.nested
        st0 == Log(st, Event("func", w, Fn(name), Undef, a))
        r1 == IF Pre(name) = "callH1"
              THEN Apply(Fn("h1"), NoArgs,
                         Log(st0, Event("call", w, Fn("h1"), Undef, NoArgs)))
              ELSE [st |-> st0, out |-> Ret]
    IN IF r1.out.k = "throw" THEN r1
       ELSE IF Out(name) = "ret" THEN r1
       ELSE LET x == Raised(name, a, r1.st)
            IN [st |-> [r1.st EXCEPT !.errs = x.errs], out |-> Throw(x.v)]

----------------------------------------------------------------------------
(* exports._x = function(cb, chk, func): the try-catch wrapper. *)

\* a variant of the resolution that prefers the call's own last argument
ResolveCbLastFirst(cb, a) ==
    IF Len(a) > 0 /\ IsFunction(a[Len(a)]) THEN a[Len(a)]
    ELSE IF ~Truthy(cb) THEN Null ELSE cb

\* lines 58-60: the closure's cb after the lazy resolution
ResolveCb(cb, a) ==
    IF ~Truthy(cb)
    THEN IF Len(a) > 0 /\ IsFunction(a[Len(a)]) THEN a[Len(a)] ELSE Null
    ELSE cb

\* a variant of the promotion that wraps whatever was raised, Errors too
PromoteAlways(h, e) == NewError(h, e)

\* lines 68-69: anything raised that is no Error becomes one
Promote(h, e) ==
    IF ~IsError(e) THEN NewError(h, e) ELSE [errs |-> h, ref |-> e]

\* variants of the link: none at all, and one that keeps a link already set
SetPrevNone(h, e, prev) == h

SetPrevKeep(h, e, prev) ==
    IF h[e.n].prev = Undef THEN [h EXCEPT ![e.n].prev = prev] ELSE h

\* line 70: e.prev = prev
SetPrev(h, e, prev) == [h EXCEPT ![e.n].prev = prev]

\* a variant of the catch clause that raises the error again once the
\* completion handler has returned
CatchRethrow(w, e, st) ==
    LET p == Promote(st.errs, e)
        h == SetPrev(p.errs, p.ref, st.wrappers[w].prev)
        st1 == Log([st EXCEPT !.errs = h],
                   Event("setprev", w, st.wrappers[w].prev, p.ref, NoArgs))
        cb == st1.wrappers[w].cb
        seen == <<p.ref, st1.errs[p.ref.n].prev>>
    IN IF ~Truthy(cb)
       THEN LET m == NewError(st1.errs, Str("missing callback"))
            IN [st |-> [st1 EXCEPT !.errs = m.errs], out |-> Throw(m.ref)]
       ELSE LET r == Apply(cb, <<p.ref>>, Log(st1, Event("deliver", w, cb, p.ref, seen)))
            IN [st |-> r.st, out |-> Throw(p.ref)]

\* lines 67-78: the catch clause of wrapper w for the raised value e
Catch(w, e, st) ==
    LET p == Promote(st.errs, e)
        h == SetPrev(p.errs, p.ref, st.wrappers[w].prev)
        st1 == Log([st EXCEPT !.errs = h],
                   Event("setprev", w, st.wrappers[w].prev, p.ref, NoArgs))
        cb == st1.wrappers[w].cb
        \* the record of the delivery keeps, as its arguments, the error and
        \* the prev it has when it is handed over
        seen == <<p.ref, st1.errs[p.ref.n].prev>>
    IN IF ~Truthy(cb)
       THEN LET m == NewError(st1.errs, Str("missing callback"))
            IN [st |-> [st1 EXCEPT !.errs = m.errs], out |-> Throw(m.ref)]
       ELSE Apply(cb, <<p.ref>>, Log(st1, Event("deliver", w, cb, p.ref, seen)))

\* a variant of the returned function that keeps the error-first argument
\* to itself and calls func with the arguments that follow it
WrapperBodyRestArgs(w, a, st) ==
    LET cb == ResolveCb(st.wrappers[w].cb, a)
        st1 == Log([st EXCEPT !.wrappers[w].cb = cb],
                   Event("invoke", w, cb, Undef, a))
        c == IF Truthy(st1.wrappers[w].chk)
             THEN _e(st1.errs, Arg(a, 1), Undef)
             ELSE [errs |-> st1.errs, out |-> Ret]
        st2 == [st1 EXCEPT !.errs = c.errs]
    IN IF c.out.k = "throw"
       THEN Catch(w, c.out.v, Log(st2, Event("check", w, Undef, c.out.v, a)))
       ELSE LET r == FuncBody(w, IF a = NoArgs THEN a ELSE Tail(a), st2)
            IN IF r.out.k = "throw"
               THEN Catch(w, r.out.v, Log(r.st, Event("caught", w, Undef, r.out.v, a)))
               ELSE r

\* a variant of the returned function that captures the origin anew on
\* every call
WrapperBodyRecapture(w, a, st) ==
    LET o == NewError(st.errs, Undef)
        cb == ResolveCb(st.wrappers[w].cb, a)
        st1 == Log([st EXCEPT !.errs = o.errs, !.wrappers[w].prev = o.ref,
                              !.wrappers[w].cb = cb],
                   Event("invoke", w, cb, Undef, a))
        c == IF Truthy(st1.wrappers[w].chk)
             THEN _e(st1.errs, Arg(a, 1), Undef)
             ELSE [errs |-> st1.errs, out |-> Ret]
        st2 == [st1 EXCEPT !.errs = c.errs]
    IN IF c.out.k = "throw"
       THEN Catch(w, c.out.v, Log(st2, Event("check", w, Undef, c.out.v, a)))
       ELSE LET r == FuncBody(w, a, st2)
            IN IF r.out.k = "throw"
               THEN Catch(w, r.out.v, Log(r.st, Event("caught", w, Undef, r.out.v, a)))
               ELSE r

\* lines 54-79: the function _x returns, called with the arguments a
WrapperBody(w, a, st) ==
    LET cb == ResolveCb(st.wrappers[w].cb, a)
        st1 == Log([st EXCEPT !.wrappers[w].cb = cb],
                   Event("invoke", w, cb, Undef, a))
        c == IF Truthy(st1.wrappers[w].chk)
             THEN _e(st1.errs, Arg(a, 1), Undef)
             ELSE [errs |-> st1.errs, out |-> Ret]
        st2 == [st1 EXCEPT !.errs = c.errs]
    IN IF c.out.k = "throw"
       THEN Catch(w, c.out.v, Log(st2, Event("check", w, Undef, c.out.v, a)))
       ELSE LET r == FuncBody(w, a, st2)
            IN IF r.out.k = "throw"
               THEN Catch(w, r.out.v, Log(r.st, Event("caught", w, Undef, r.out.v, a)))
               ELSE r

\* f.apply(null, a) for a function value f: a wrapper or a completion handler
Apply(f, a, st) ==
    IF f.t = "wrap"
    THEN LET r == WrapperBody(f.n, a, st)
         IN [st |-> Log(r.st, Event(IF r.out.k = "throw" THEN "raise" ELSE "return",
                                   f.n, f, r.out.v, a)),
             out |-> r.out]
    ELSE HandlerBody(f.s, a, st)

\* a variant of _x that takes whatever cb it is given
_xNoCbCheck(h, ws, cb, chk, func) ==
    IF ~IsFunction(func)
    THEN LET m == NewError(h, Str("func is not a function"))
         IN [errs |-> m.errs, wrappers |-> ws, out |-> Throw(m.ref)]
    ELSE LET prev == NewError(h, Undef)
         IN [errs |-> prev.errs,
             wrappers |-> Append(ws, [cb |-> cb, chk |-> chk, func |-> func,
                                      prev |-> prev.ref, cb0 |-> cb]),
             out |-> [k |-> "ret", v |-> WrapRef(Len(ws) + 1)]]

\* a variant of _x that does not look at func
_xNoFuncCheck(h, ws, cb, chk, func) ==
    IF Truthy(cb) /\ ~IsFunction(cb)
    THEN LET m == NewError(h, Str("cb is not a function"))
         IN [errs |-> m.errs, wrappers |-> ws, out |-> Throw(m.ref)]
    ELSE LET prev == NewError(h, Undef)
         IN [errs |-> prev.errs,
             wrappers |-> Append(ws, [cb |-> cb, chk |-> chk, func |-> func,
                                      prev |-> prev.ref, cb0 |-> cb]),
             out |-> [k |-> "ret", v |-> WrapRef(Len(ws) + 1)]]

\* lines 44-54: _x(cb, chk, func) on the heap h with the wrappers ws
_x(h, ws, cb, chk, func) ==
    IF Truthy(cb) /\ ~IsFunction(cb)
    THEN LET m == NewError(h, Str("cb is not a function"))
         IN [errs |-> m.errs, wrappers |-> ws, out |-> Throw(m.ref)]
    ELSE IF ~IsFunction(func)
    THEN LET m == NewError(h, Str("func is not a function"))
         IN [errs |-> m.errs, wrappers |-> ws, out |-> Throw(m.ref)]
    ELSE LET prev == NewError(h, Undef)
         IN [errs |-> prev.errs,
             wrappers |-> Append(ws, [cb |-> cb, chk |-> chk, func |-> func,
                                      prev |-> prev.ref, cb0 |-> cb]),
             out |-> [k |-> "ret", v |-> WrapRef(Len(ws) + 1)]]

----------------------------------------------------------------------------
(* The state machine: the program builds wrappers and the asynchronous     *)
(* operations call them back.  An exception that nobody catches ends the   *)
(* Node process, so nothing runs after an operation that raised.           *)

NoOp == [op |-> "none", w |-> 0, args |-> NoArgs, ev |-> << >>, out |-> Ret]

NoRender == [e |-> Undef, s |-> << >>, stack |-> << >>, text |-> << >>]

NoConfig == [hiding |-> Undef, prettyMeta |-> Undef,
             frameSeparator |-> Undef, fiberSeparator |-> Undef]

Running == last.out.k # "throw" /\ ncalls < MaxCalls

\* the values the program passes as cb: none, a handler, something that is
\* no function, or a wrapper built earlier
CbVals == {Null, Fn("h1"), Fn("h2"), Str("x")}
             \cup {WrapRef(i) : i \in 1..Len(wrappers)}

ChkVals == {True, False}

\* the values the program passes as func: its callback, or no function
FuncVals == {Fn("f"), Null, Str("x")}

\* the arguments an asynchronous operation calls a wrapper back with: an
\* error-first value, then possibly a callback
FirstVals == {Null, Str("boom")} \cup (IF IsError(saved) THEN {saved} ELSE {})

LastVals == {Fn("h2")}

ArgLists ==
    {NoArgs, <<Fn("h1")>>} \cup {<<x>> : x \in FirstVals}
        \cup {<<x, y>> : x \in FirstVals, y \in LastVals}

\* a second callback runs in an operation only when a wrapper is the
\* completion handler of another; where none is, its behaviour is not chosen
NestedChoices ==
    IF \E i \in 1..Len(wrappers) : wrappers[i].cb.t = "wrap"
    THEN NestedFuncs ELSE {"fRet"}

Init ==
    /\ errs = << >>
    /\ wrappers = << >>
    /\ saved = Undef
    /\ last = NoOp
    /\ config = NoConfig
    /\ installed = FALSE
    /\ render = NoRender
    /\ stacks = {}
    /\ ncalls = 0

\* the program calls _x(cb, chk, func)
Construct(cb, chk, func) ==
    /\ Running
    /\ Len(wrappers) < MaxWrappers
    /\ LET r == _x(errs, wrappers, cb, chk, func)
       IN /\ errs' = r.errs
          /\ wrappers' = r.wrappers
          /\ last' = [op |-> "_x", w |-> IF r.out.k = "ret" THEN r.out.v.n ELSE 0,
                      args |-> <<cb, chk, func>>, ev |-> << >>, out |-> r.out]
    /\ ncalls' = ncalls + 1
    /\ UNCHANGED <<saved, config, installed, render, stacks>>

\* an asynchronous operation calls wrapper w back with the arguments a; the
\* callbacks that run behave as top and nested
Invoke(w, a, top, nested) ==
    /\ Running
    /\ LET r == Apply(WrapRef(w), a,
                      [errs |-> errs, wrappers |-> wrappers, saved |-> saved,
                       ev |-> << >>, top |-> top, nested |-> nested])
       IN /\ errs' = r.st.errs
          /\ wrappers' = r.st.wrappers
          /\ saved' = r.st.saved
          /\ last' = [op |-> "call", w |-> w, args |-> a, ev |-> r.st.ev,
                      out |-> r.out]
    /\ ncalls' = ncalls + 1
    /\ UNCHANGED <<config, installed, render, stacks>>

Next ==
    \/ /\ Running
       /\ \E cb \in CbVals, chk \in ChkVals, func \in FuncVals : Construct(cb, chk, func)
    \/ /\ Running
       /\ \E w \in 1..Len(wrappers), a \in ArgLists, top \in Funcs, nested \in NestedChoices :
               Invoke(w, a, top, nested)

Spec == Init /\ [][Next]_vars

----------------------------------------------------------------------------
(* _e on its own: the program calls it with a value and a meta. *)

\* the values handed to _e: the falsy ones, and strings, numbers, objects,
\* functions and Errors that are set
EVals == {Undef, Null, False, True, Num(0), Num(1), Str(""), Str("boom"),
          Obj("o"), Fn("h1"), ErrRef(1)}

MetaVals == {Undef, Null, Obj("m"), Str("tag")}

\* an Error the program made before, with or without a meta of its own
InitE ==
    /\ errs \in {<<[message |-> "old", meta |-> m, prev |-> Undef]>> :
                    m \in {Undef, Obj("m0")}}
    /\ wrappers = << >>
    /\ saved = Undef
    /\ last = NoOp
    /\ config = NoConfig
    /\ installed = FALSE
    /\ render = NoRender
    /\ stacks = {}
    /\ ncalls = 0

\* the program calls _e(e, meta)
CallE(e, meta) ==
    /\ Running
    /\ LET r == _e(errs, e, meta)
       IN /\ errs' = r.errs
          /\ last' = [op |-> "_e", w |-> 0, args |-> <<e, meta>>, ev |-> << >>,
                      out |-> r.out]
    /\ ncalls' = ncalls + 1
    /\ UNCHANGED <<wrappers, saved, config, installed, render, stacks>>

NextE == Running /\ \E e \in EVals, meta \in MetaVals : CallE(e, meta)

SpecE == InitE /\ [][NextE]_vars

----------------------------------------------------------------------------
(* exports.leanStacks and the Error.prepareStackTrace it installs.  A text *)
(* is a sequence of pieces (strings); a file name is a text whose pieces   *)
(* are the working directory, 'node_modules' and the rest of the path.     *)

\* process.cwd()
Cwd == "/home/app"

FileA == <<Cwd, "/a.js">>
FileB == <<Cwd, "/", "node_modules", "/b.js">>
FileLib == <<Cwd, "/", "node_modules", "/laeh2/lib", "/laeh2.js">>
FileCore == <<"module.js">>
FileAbs == <<"/", "usr/lib/x.js">>
NoFile == << >>

\* a call site as V8 hands it over: getFileName(), getLineNumber() (as
\* text, '' for none), isEval(), isNative()
Frame(file, line, ev, nat) == [file |-> file, line |-> line, eval |-> ev, native |-> nat]

\* the call sites of the model: two lines of a.js (one in an eval), a file
\* under node_modules, the library itself, a core file, a file outside the
\* working directory, and a native frame with no file and no line
Frames == {Frame(FileA, "7", FALSE, FALSE), Frame(FileA, "9", TRUE, FALSE),
           Frame(FileB, "13", FALSE, FALSE), Frame(FileLib, "56", FALSE, FALSE),
           Frame(FileCore, "432", FALSE, FALSE), Frame(FileAbs, "3", FALSE, FALSE),
           Frame(NoFile, "", FALSE, TRUE)}

\* the structured stack traces of at most n frames
RECURSIVE FrameLists(_)
FrameLists(n) ==
    IF n = 0 THEN {<< >>}
    ELSE FrameLists(n - 1) \cup
         {Append(s, f) : s \in {t \in FrameLists(n - 1) : Len(t) = n - 1}, f \in Frames}

\* text.replace(x, y) with a pattern that is no /g: the first x only
RECURSIVE ReplaceFirst(_, _, _)
ReplaceFirst(text, x, y) ==
    IF text = << >> THEN << >>
    ELSE IF Head(text) = x THEN <<y>> \o Tail(text)
    ELSE <<Head(text)>> \o ReplaceFirst(Tail(text), x, y)

\* text.replace(/x/g, y): every x
ReplaceAll(text, x, y) == [i \in DOMAIN text |-> IF text[i] = x THEN y ELSE text[i]]

\* line 99: the shortened file location of a frame
Shorten(file) ==
    ReplaceAll(ReplaceFirst(IF file = NoFile THEN <<"?">> ELSE file, Cwd, "."),
               "node_modules", "$")

\* line 100: n.charAt(0), as far as the test of line 101 tells it apart
CharAt0(n) ==
    IF n[1] = "." THEN "."
    ELSE IF n[1] \in {"?", "$", "node_modules", "module.js"} THEN "other"
    ELSE "/"

\* line 101: /.*?laeh2.js$/.exec(n)
IsLib(n) == n[Len(n)] \in {"/laeh2.js", "laeh2.js"}

\* a variant of the test that hides the core files only
HiddenNotLib(hiding, n) ==
    Truthy(hiding) /\ (CharAt0(n) # "." /\ CharAt0(n) # "/")

\* line 101: whether hiding drops the frame located at n
Hidden(hiding, n) ==
    Truthy(hiding) /\ ((CharAt0(n) # "." /\ CharAt0(n) # "/") \/ IsLib(n))

\* line 103: the line indicator of a frame
LineInd(f) ==
    <<IF f.line = "" THEN "?" ELSE f.line>>
        \o (IF f.eval THEN <<"*">> ELSE << >>)
        \o (IF f.native THEN <<"+">> ELSE << >>)

\* a variant of the loop that opens an entry for every frame it keeps
RECURSIVE FrameLoopNoMerge(_, _, _, _, _)
FrameLoopNoMerge(s, i, stack, prev, hiding) ==
    IF i > Len(s) THEN stack
    ELSE LET n == Shorten(s[i].file)
         IN IF Hidden(hiding, n) THEN FrameLoopNoMerge(s, i + 1, stack, prev, hiding)
            ELSE FrameLoopNoMerge(s, i + 1, Append(stack, n \o <<"(">> \o LineInd(s[i])),
                                  n, hiding)

\* lines 97-109: the loop over the frames s from the i-th on, with the
\* entries made so far and the location of the last frame kept
RECURSIVE FrameLoop(_, _, _, _, _)
FrameLoop(s, i, stack, prev, hiding) ==
    IF i > Len(s) THEN stack
    ELSE LET n == Shorten(s[i].file)
             ln == LineInd(s[i])
         IN IF Hidden(hiding, n) THEN FrameLoop(s, i + 1, stack, prev, hiding)
            ELSE IF prev = n
            THEN FrameLoop(s, i + 1,
                           [stack EXCEPT ![Len(stack)] = @ \o <<" < ">> \o ln], n, hiding)
            ELSE FrameLoop(s, i + 1, Append(stack, n \o <<"(">> \o ln), n, hiding)

\* lines 110-111: every entry gets its closing parenthesis
CloseAll(stack) == [i \in DOMAIN stack |-> stack[i] \o <<")">>]

\* stack.join(fs)
RECURSIVE Join(_, _)
Join(stack, fs) ==
    IF stack = << >> THEN << >>
    ELSE IF Len(stack) = 1 THEN stack[1]
    ELSE stack[1] \o <<fs>> \o Join(Tail(stack), fs)

\* JSON.stringify(meta, null, prettyMeta) for an object whose one member
\* has the text meta.s
JsonStringify(meta, prettyMeta) ==
    IF Truthy(prettyMeta)
    THEN <<"{", "\n", ToStr(prettyMeta), meta.s, "\n", "}">>
    ELSE <<"{", meta.s, "}">>

\* x || d for a separator
OrElse(x, d) == IF Truthy(x) THEN ToStr(x) ELSE d

\* a variant of the formatter that puts nothing between the meta and the
\* frame entries
prepareStackTraceNoSpace(cfg, h, e, s, prevStack) ==
    LET fs == OrElse(cfg.frameSeparator, " < ")
        stack == CloseAll(FrameLoop(s, 1, << >>, << >>, cfg.hiding))
        m1 == IF h[e.n].message # "" THEN <<h[e.n].message, fs>> ELSE << >>
        m2 == IF Truthy(h[e.n].meta)
              THEN (IF h[e.n].meta.t = "obj"
                    THEN JsonStringify(h[e.n].meta, cfg.prettyMeta)
                    ELSE <<ToStr(h[e.n].meta)>>)
              ELSE << >>
        m3 == IF Truthy(h[e.n].prev)
              THEN <<OrElse(cfg.fiberSeparator, " << ")>> \o prevStack
              ELSE << >>
    IN [stack |-> stack, text |-> m1 \o m2 \o Join(stack, fs) \o m3]

\* lines 91-126: Error.prepareStackTrace(e, s) as installed with cfg, for the
\* error e of the heap h; prevStack is the text of e.prev.stack
prepareStackTrace(cfg, h, e, s, prevStack) ==
    LET fs == OrElse(cfg.frameSeparator, " < ")
        stack == CloseAll(FrameLoop(s, 1, << >>, << >>, cfg.hiding))
        m1 == IF h[e.n].message # "" THEN <<h[e.n].message, fs>> ELSE << >>
        m2 == IF Truthy(h[e.n].meta)
              THEN (IF h[e.n].meta.t = "obj"
                    THEN JsonStringify(h[e.n].meta, cfg.prettyMeta)
                    ELSE <<ToStr(h[e.n].meta)>>) \o <<" ">>
              ELSE << >>
        m3 == IF Truthy(h[e.n].prev)
              THEN <<OrElse(cfg.fiberSeparator, " << ")>> \o prevStack
              ELSE << >>
    IN [stack |-> stack, text |-> m1 \o m2 \o Join(stack, fs) \o m3]

\* whether V8 holds the formatted stack of the error e, and the text it holds
Cached(cache, e) == \E c \in cache : c.e = e

TextOf(cache, e) == (CHOOSE c \in cache : c.e = e).text

\* a variant of e.stack in which the stack of e.prev shows one boundary only
StackOfOneLevel(cache, cfg, h, e, s, sp) ==
    IF Cached(cache, e)
    THEN [cache |-> cache, stack |-> << >>, text |-> TextOf(cache, e)]
    ELSE LET r == prepareStackTrace(cfg, h, e, s,
                      IF IsError(h[e.n].prev)
                      THEN prepareStackTrace(cfg, [h EXCEPT ![h[e.n].prev.n].prev = Undef],
                                             h[e.n].prev, sp, << >>).text
                      ELSE << >>)
         IN [cache |-> cache \cup {[e |-> e, text |-> r.text]},
             stack |-> r.stack, text |-> r.text]

\* e.stack, line 123 for e.prev: V8 formats the stack of an error when it is
\* first read, with the formatter installed then, and keeps the text; the
\* formatter reads e.prev.stack in turn.  cache holds the texts kept so far,
\* s are the frames captured for e and sp those captured for every error
\* further down its prev chain
RECURSIVE StackOf(_, _, _, _, _, _)
StackOf(cache, cfg, h, e, s, sp) ==
    IF Cached(cache, e)
    THEN [cache |-> cache, stack |-> << >>, text |-> TextOf(cache, e)]
    ELSE LET p == IF IsError(h[e.n].prev)
                  THEN StackOf(cache, cfg, h, h[e.n].prev, sp, sp)
                  ELSE [cache |-> cache, stack |-> << >>, text |-> << >>]
             r == prepareStackTrace(cfg, h, e, s, p.text)
         IN [cache |-> p.cache \cup {[e |-> e, text |-> r.text]},
             stack |-> r.stack, text |-> r.text]

\* the arguments given to leanStacks
HidingVals == {True, False}
PrettyVals == {Undef, Str("\t")}
FrameSepVals == {Undef, Str("\n")}
FiberSepVals == {Undef, Str("\n<<\n")}

\* the errors whose stack is read: one raised in a callback and linked to
\* its origin, that origin, one with a meta object, and one with no message,
\* a meta string and a chain of two
FormatterErrs ==
    <<[message |-> "x", meta |-> Undef, prev |-> ErrRef(2)],
      [message |-> "", meta |-> Undef, prev |-> Undef],
      [message |-> "m", meta |-> Obj("\"a\":1"), prev |-> Undef],
      [message |-> "", meta |-> Str("tag"), prev |-> ErrRef(1)]>>

\* the frames captured where a wrapper was built
OriginFrameLists == {<<Frame(FileA, "7", FALSE, FALSE)>>,
                     <<Frame(FileLib, "56", FALSE, FALSE), Frame(FileB, "13", FALSE, FALSE),
                       Frame(FileB, "13", FALSE, FALSE)>>}

InitF ==
    /\ errs = FormatterErrs
    /\ wrappers = << >>
    /\ saved = Undef
    /\ last = NoOp
    /\ config = NoConfig
    /\ installed = FALSE
    /\ render = NoRender
    /\ stacks = {}
    /\ ncalls = 0

\* the library handle leanStacks returns
Exports == Obj("exports")

\* a variant of leanStacks that keeps the separators installed before when
\* it is given none
LeanStacksKeepSeparators(hiding, prettyMeta, frameSeparator, fiberSeparator) ==
    /\ config' = [hiding |-> hiding, prettyMeta |-> prettyMeta,
                  frameSeparator |-> IF Truthy(frameSeparator) THEN frameSeparator
                                     ELSE config.frameSeparator,
                  fiberSeparator |-> IF Truthy(fiberSeparator) THEN fiberSeparator
                                     ELSE config.fiberSeparator]
    /\ installed' = TRUE
    /\ last' = [op |-> "leanStacks", w |-> 0,
                args |-> <<hiding, prettyMeta, frameSeparator, fiberSeparator>>,
                ev |-> << >>, out |-> [k |-> "ret", v |-> Exports]]
    /\ ncalls' = ncalls + 1
    /\ UNCHANGED <<errs, wrappers, saved, render, stacks>>

\* lines 89-128: the program calls leanStacks: the formatter that holds the
\* four arguments replaces the one installed, and the library is returned
LeanStacks(hiding, prettyMeta, frameSeparator, fiberSeparator) ==
    /\ config' = [hiding |-> hiding, prettyMeta |-> prettyMeta,
                  frameSeparator |-> frameSeparator, fiberSeparator |-> fiberSeparator]
    /\ installed' = TRUE
    /\ last' = [op |-> "leanStacks", w |-> 0,
                args |-> <<hiding, prettyMeta, frameSeparator, fiberSeparator>>,
                ev |-> << >>, out |-> [k |-> "ret", v |-> Exports]]
    /\ ncalls' = ncalls + 1
    /\ UNCHANGED <<errs, wrappers, saved, render, stacks>>

\* the stack of the error e is read: when V8 does not hold its text yet, it
\* calls the installed formatter with e and the frames s captured for it,
\* and keeps the text; a text it holds is given back as it is
ReadStack(e, s, sp) ==
    /\ installed
    /\ LET r == StackOf(stacks, config, errs, e, s, sp)
       IN /\ render' = IF Cached(stacks, e) THEN render
                       ELSE [e |-> e, s |-> s, stack |-> r.stack, text |-> r.text]
          /\ stacks' = r.cache
    /\ UNCHANGED <<errs, wrappers, saved, last, config, installed, ncalls>>

\* the program installs the formatter once, as it starts, and one stack is
\* read
NextF ==
    \/ /\ ~installed
       /\ \E h \in HidingVals, p \in PrettyVals, fs \in FrameSepVals, fb \in FiberSepVals :
               LeanStacks(h, p, fs, fb)
    \/ /\ installed /\ render = NoRender
       /\ \E e \in 1..Len(errs), s \in FrameLists(MaxFrames), sp \in OriginFrameLists :
               ReadStack(ErrRef(e), s, sp)

SpecF == InitF /\ [][NextF]_vars

----------------------------------------------------------------------------
(* leanStacks called again while the program runs, and stacks read between *)
(* the calls.                                                              *)

\* the arguments of a leanStacks call: all left out, the ones the README
\* gives for Express, and two that set some and leave out the others
InstallVals == {<<Undef, Undef, Undef, Undef>>,
                <<True, Str("\t"), Str("\n"), Str("\n<<\n")>>,
                <<True, Undef, Str("\n"), Undef>>,
                <<False, Str("\t"), Undef, Str("\n<<\n")>>}

\* the frames captured for an error whose stack is read: a core file and
\* two lines of a.js
ReadFrameLists == {<<Frame(FileCore, "432", FALSE, FALSE), Frame(FileA, "7", FALSE, FALSE),
                     Frame(FileA, "9", TRUE, FALSE)>>}

\* the frames captured for the errors down its chain
ReadOriginLists == {s \in OriginFrameLists : Len(s) = 1}

NextL ==
    \/ /\ ncalls < MaxCalls
       /\ \E c \in InstallVals : LeanStacks(c[1], c[2], c[3], c[4])
    \/ /\ installed
       /\ \E e \in 1..Len(errs), s \in ReadFrameLists, sp \in ReadOriginLists :
               ReadStack(ErrRef(e), s, sp)

SpecL == InitF /\ [][NextL]_vars

----------------------------------------------------------------------------
(* What the record of the last operation says. *)

\* the steps of kind k that wrapper w took in the last operation
EvOf(k, w) == {i \in Events(last.ev, k) : last.ev[i].w = w}

\* the calls of wrappers in the last operation, the nested ones included
Invocations == Events(last.ev, "invoke")

\* the last argument of a call when it is a function, null otherwise
LastFunction(a) == IF Len(a) > 0 /\ IsFunction(a[Len(a)]) THEN a[Len(a)] ELSE Null

\* the prev chain of the error e: the links met before the chain ends, or
\* before n steps are made along it
RECURSIVE Chain(_, _, _)
Chain(h, e, n) ==
    IF n = 0 \/ ~IsError(e) \/ h[e.n].prev = Undef THEN << >>
    ELSE <<h[e.n].prev>> \o Chain(h, h[e.n].prev, n - 1)

\* the wrappers that linked the error e in the last operation, in order
RECURSIVE Crossed(_, _)
Crossed(e, i) ==
    IF i > Len(last.ev) THEN << >>
    ELSE IF last.ev[i].k = "setprev" /\ last.ev[i].v = e
         THEN <<last.ev[i].w>> \o Crossed(e, i + 1)
         ELSE Crossed(e, i + 1)

\* the origins of a list of wrappers, the last wrapper's first
RECURSIVE OriginsOf(_)
OriginsOf(ws) ==
    IF ws = << >> THEN << >>
    ELSE OriginsOf(Tail(ws)) \o <<wrappers[Head(ws)].prev>>

\* the errors linked in the last operation
Linked == {last.ev[i].v : i \in Events(last.ev, "setprev")}

----------------------------------------------------------------------------
(* The claims about _x. *)

\* C1: when a wrapper built with a completion handler catches what func
\* raised, it hands exactly one error to that handler in that call, the
\* handler runs with it, the error is an Error, and its prev at that moment
\* is the wrapper's origin, whatever func did before raising.
C1_OneLinkedErrorDelivered ==
    last.op = "call" =>
        \A i \in Events(last.ev, "caught") :
            LET w == last.ev[i].w
            IN Truthy(wrappers[w].cb0) =>
                /\ Cardinality(EvOf("deliver", w)) = 1
                /\ \A j \in EvOf("deliver", w) :
                      /\ j > i
                      /\ last.ev[j].f = wrappers[w].cb0
                      /\ IsError(last.ev[j].v)
                      /\ last.ev[j].args = <<last.ev[j].v, wrappers[w].prev>>
                      /\ \/ /\ last.ev[j + 1].k = "handler"
                            /\ last.ev[j + 1].f = wrappers[w].cb0
                         \/ /\ last.ev[j + 1].k = "invoke"
                            /\ WrapRef(last.ev[j + 1].w) = wrappers[w].cb0
                      /\ last.ev[j + 1].args = <<last.ev[j].v>>

\* a call in which func called the handler h1 itself and then raised a
\* string: h1 ran twice, once for func and once with the wrapper's error
C1_Witness ==
    /\ last.op = "call"
    /\ wrappers[last.w].cb0 = Fn("h1")
    /\ EvOf("call", last.w) # {}
    /\ EvOf("caught", last.w) # {}
    /\ Cardinality(Events(last.ev, "handler")) = 2
    /\ EvOf("deliver", last.w) # {}

\* C2: a wrapper built with chk set and a handler that can be resolved,
\* called with a first argument that is set, hands the handler an error for
\* it (the argument itself when it is an Error, otherwise a new Error with
\* its string form as message) and never runs func; called with a first
\* argument that is not set, it runs func and the check raises nothing.
C2_CheckedArgumentDelivered ==
    last.op = "call" =>
        \A i \in Invocations :
            LET w == last.ev[i].w
                a == last.ev[i].args
                cb == last.ev[i].f
            IN (Truthy(wrappers[w].chk) /\ Truthy(cb)) =>
                IF Truthy(Arg(a, 1))
                THEN /\ EvOf("func", w) = {}
                     /\ Cardinality(EvOf("deliver", w)) = 1
                     /\ \A j \in EvOf("deliver", w) :
                           /\ last.ev[j].f = cb
                           /\ IsError(last.ev[j].v)
                           /\ IsError(Arg(a, 1)) => last.ev[j].v = Arg(a, 1)
                           /\ ~IsError(Arg(a, 1)) =>
                                 errs[last.ev[j].v.n].message = ToStr(Arg(a, 1))
                ELSE /\ Cardinality(EvOf("func", w)) = 1
                     /\ EvOf("check", w) = {}

\* a checked wrapper handed an Error as first argument passes that very
\* object on to h1
C2_Witness ==
    /\ last.op = "call"
    /\ Truthy(wrappers[last.w].chk)
    /\ IsError(Arg(last.args, 1))
    /\ \E j \in EvOf("deliver", last.w) :
          last.ev[j].v = Arg(last.args, 1) /\ last.ev[j].f = Fn("h1")
    /\ EvOf("func", last.w) = {}

\* C3 as stated: a wrapper whose completion handler can be resolved never
\* ends a call by raising to its caller, whatever func and the handler do.
C3_Original ==
    last.op = "call" =>
        \A i \in Invocations :
            Truthy(last.ev[i].f) => EvOf("raise", last.ev[i].w) = {}

\* C3, amended: a wrapper whose completion handler can be resolved raises
\* to its caller only what the handler itself raised while it was handed the
\* error, never anything once the handler has returned; and whatever the
\* check or func raised is handed to the handler.
C3_OnlyTheHandlerRaises ==
    last.op = "call" =>
        \A i \in Invocations :
            LET w == last.ev[i].w
            IN Truthy(last.ev[i].f) =>
                /\ \A r \in EvOf("raise", w) :
                      /\ r > 1
                      /\ last.ev[r - 1].k = "raise"
                      /\ last.ev[r - 1].v = last.ev[r].v
                      /\ \E d \in EvOf("deliver", w) :
                            d < r /\ last.ev[d].f = last.ev[r - 1].f
                /\ \A c \in EvOf("check", w) \cup EvOf("caught", w) :
                      \E d \in EvOf("deliver", w) :
                          /\ d > c
                          /\ last.ev[d].f = last.ev[i].f
                          /\ IsError(last.ev[c].v) => last.ev[d].v = last.ev[c].v

\* the handler h2 was handed the error, raised it again, and the wrapper's
\* call ended by raising it to the caller
C3_Witness ==
    /\ last.op = "call"
    /\ last.out.k = "throw"
    /\ \E d \in EvOf("deliver", last.w) :
          last.ev[d].f = Fn("h2") /\ last.out.v = last.ev[d].v

\* C4: a wrapper built without a completion handler takes, on every call,
\* the last argument of that call as its handler when it is a function, and
\* has none otherwise, whatever the earlier calls were given.
C4_Original ==
    last.op = "call" =>
        \A i \in Invocations :
            ~Truthy(wrappers[last.ev[i].w].cb0) =>
                last.ev[i].f = LastFunction(last.ev[i].args)

\* C5: whatever a wrapper built with a completion handler hands over goes
\* to that handler, also when the call's last argument is another function.
C5_SuppliedHandlerOnly ==
    last.op = "call" =>
        \A d \in Events(last.ev, "deliver") :
            Truthy(wrappers[last.ev[d].w].cb0) =>
                /\ last.ev[d].f = wrappers[last.ev[d].w].cb0
                /\ last.ev[d + 1].k = "handler" => last.ev[d + 1].f = wrappers[last.ev[d].w].cb0

\* a wrapper built with h1 is called with h2 as last argument and hands its
\* error to h1
C5_Witness ==
    /\ last.op = "call"
    /\ wrappers[last.w].cb0 = Fn("h1")
    /\ LastFunction(last.args) = Fn("h2")
    /\ \E d \in EvOf("deliver", last.w) : last.ev[d].f = Fn("h1")

\* C6: when a wrapper was built without a completion handler and the last
\* argument of a call is no function (or there is no argument), and the
\* check or func raises, the call raises to its caller and no completion
\* handler runs in it.
C6_Original ==
    last.op = "call" =>
        \A i \in Invocations :
            LET w == last.ev[i].w
            IN (/\ ~Truthy(wrappers[w].cb0)
                /\ LastFunction(last.ev[i].args) = Null
                /\ EvOf("check", w) \cup EvOf("caught", w) # {}) =>
                    /\ EvOf("raise", w) # {}
                    /\ EvOf("deliver", w) = {}

\* C7 as stated: after an error went through k boundaries in a row, its
\* prev chain holds the k origins, the last boundary's first.
C7_Original ==
    last.op = "call" =>
        \A e \in Linked :
            Chain(errs, e, Len(errs) + 1) = OriginsOf(Crossed(e, 1))

\* C7, amended: after an error went through k boundaries in a row, its prev
\* is the origin of the boundary crossed last, for every k >= 1; the link to
\* the origin of a boundary crossed before is overwritten, so that the chain
\* does not grow by one origin at every boundary.
C7_LastOriginOnly ==
    last.op = "call" =>
        \A e \in Linked :
            LET ws == Crossed(e, 1)
            IN /\ errs[e.n].prev = wrappers[ws[Len(ws)]].prev
               /\ \A k \in 1..(Len(ws) - 1) :
                     ws[k] # ws[Len(ws)] => errs[e.n].prev # wrappers[ws[k]].prev

\* an error that two wrappers linked one after the other in one operation
C7_Witness ==
    /\ last.op = "call"
    /\ \E e \in Linked :
          /\ Len(Crossed(e, 1)) >= 2
          /\ Crossed(e, 1)[1] # Crossed(e, 1)[2]
          /\ \A w \in 1..Len(wrappers) : errs[wrappers[w].prev.n].prev = Undef

\* the values that are not set, as the claim lists them
Falsy == {Undef, Null, False, Num(0), Str("")}

\* C8: _e(value, meta) returns normally, changing nothing, for every value
\* that is undefined, null, false, 0 or '', whatever meta is; for every other
\* value it raises: the value itself when it is an Error, and otherwise a new
\* Error whose message is the string form of the value.
C8_ChecksThenRaises ==
    [][(last'.op = "_e" /\ ncalls' = ncalls + 1) =>
          LET v == last'.args[1]
          IN IF v \in Falsy
             THEN last'.out = Ret /\ errs' = errs
             ELSE /\ last'.out.k = "throw"
                  /\ IF IsError(v)
                     THEN last'.out.v = v /\ Len(errs') = Len(errs)
                     ELSE /\ last'.out.v = ErrRef(Len(errs) + 1)
                          /\ Len(errs') = Len(errs) + 1
                          /\ errs'[Len(errs')].message = ToStr(v)
                          /\ \A i \in 1..Len(errs) : errs'[i] = errs[i]]_vars

\* _e(0, meta) with a meta that is set has returned after _e(null) did, and
\* no Error was made
C8_Witness ==
    /\ last.op = "_e"
    /\ last.args = <<Num(0), Obj("m")>>
    /\ last.out = Ret
    /\ ncalls = 2
    /\ Len(errs) = 1

\* C9: _x(cb, chk, func) with a func that is no function raises an Error,
\* builds no wrapper and captures no origin (the raised Error is the only
\* new object), whatever cb and chk are.
C9_NotAFunctionFailsConstruction ==
    [][(last'.op = "_x" /\ ncalls' = ncalls + 1 /\ ~IsFunction(last'.args[3])) =>
          /\ last'.out.k = "throw"
          /\ IsError(last'.out.v)
          /\ wrappers' = wrappers
          /\ last'.out.v = ErrRef(Len(errs) + 1)
          /\ \E m \in {"cb is not a function", "func is not a function"} :
                errs' = Append(errs, [message |-> m, meta |-> Undef, prev |-> Undef])]_vars

\* _x was called with a handler, chk set and null as func
C9_Witness ==
    /\ last.op = "_x"
    /\ last.args = <<Fn("h1"), True, Null>>
    /\ last.out.k = "throw"

----------------------------------------------------------------------------
(* The claims about the formatter. *)

\* the frames of s that hiding keeps
RECURSIVE Surviving(_, _)
Surviving(s, hiding) ==
    IF s = << >> THEN << >>
    ELSE IF Hidden(hiding, Shorten(Head(s).file)) THEN Surviving(Tail(s), hiding)
    ELSE <<Head(s)>> \o Surviving(Tail(s), hiding)

\* the runs of neighbours with one location among the frames s, each with
\* its location and the line indicators of its frames in stack order
RECURSIVE Runs(_)
Runs(s) ==
    IF s = << >> THEN << >>
    ELSE LET rest == Runs(Tail(s))
             loc == Shorten(Head(s).file)
         IN IF rest # << >> /\ rest[1].loc = loc
            THEN <<[loc |-> loc, lines |-> <<LineInd(Head(s))>> \o rest[1].lines]>>
                     \o Tail(rest)
            ELSE <<[loc |-> loc, lines |-> <<LineInd(Head(s))>>]>> \o rest

\* the entry of a run whose line indicators are joined by sep
EntryOf(run, sep) == run.loc \o <<"(">> \o Join(run.lines, sep) \o <<")">>

\* the file location of a rendered entry: what comes before its parenthesis
RECURSIVE LocOf(_)
LocOf(entry) ==
    IF entry = << >> \/ Head(entry) = "(" THEN << >>
    ELSE <<Head(entry)>> \o LocOf(Tail(entry))

\* C10 as stated: the surviving frames that follow each other with the same
\* shortened location make one entry, their line indicators joined by the
\* configured frame separator.
C10_Original ==
    render.e # Undef =>
        LET runs == Runs(Surviving(render.s, config.hiding))
        IN render.stack =
              [i \in 1..Len(runs) |-> EntryOf(runs[i], OrElse(config.frameSeparator, " < "))]

\* C10, amended: the surviving frames that follow each other with the same
\* shortened location make one entry, their line indicators in stack order
\* and joined by ' < ' whatever frame separator is configured; so no two
\* neighbouring entries have the same location.
C10_CoalescedWithFixedSeparator ==
    render.e # Undef =>
        LET runs == Runs(Surviving(render.s, config.hiding))
        IN /\ render.stack = [i \in 1..Len(runs) |-> EntryOf(runs[i], " < ")]
           /\ \A i \in 1..(Len(render.stack) - 1) :
                 LocOf(render.stack[i]) # LocOf(render.stack[i + 1])

\* with '\n' as frame separator and hiding on, two frames of a.js with a
\* frame of the library between them came out as the one entry
\* ./a.js(7 < 9*)
C10_Witness ==
    /\ config.frameSeparator = Str("\n")
    /\ Truthy(config.hiding)
    /\ Len(render.s) = 3
    /\ render.s[2].file = FileLib
    /\ render.stack = <<<<".", "/a.js", "(", "7", " < ", "9", "*", ")">>>>

\* a text cut at every ' < '
RECURSIVE Split(_)
Split(xs) ==
    IF \A k \in 1..Len(xs) : xs[k] # " < " THEN <<xs>>
    ELSE LET k == CHOOSE k \in 1..Len(xs) :
                     xs[k] = " < " /\ \A j \in 1..(k - 1) : xs[j] # " < "
         IN <<SubSeq(xs, 1, k - 1)>> \o Split(SubSeq(xs, k + 1, Len(xs)))

\* the line indicators of a rendered entry, in order: what stands between
\* its parentheses, cut at every ' < '
Indicators(entry) == Split(SubSeq(entry, Len(LocOf(entry)) + 2, Len(entry) - 1))

\* the line indicators of all the entries of a rendered stack, in order
RECURSIVE AllIndicators(_)
AllIndicators(stack) ==
    IF stack = << >> THEN << >>
    ELSE Indicators(stack[1]) \o AllIndicators(Tail(stack))

\* C11: with hiding on, the location of every rendered entry begins with
\* '.' or '/' and does not end in laeh2.js; with hiding off, the line
\* indicators of the rendered entries are those of all the captured frames,
\* one for each frame, in stack order.
C11_HidingKeepsPathsOnly ==
    render.e # Undef =>
        IF Truthy(config.hiding)
        THEN \A i \in 1..Len(render.stack) :
                LET n == LocOf(render.stack[i])
                IN /\ n # << >>
                   /\ n[1] \in {".", "/"}
                   /\ n[Len(n)] \notin {"/laeh2.js", "laeh2.js"}
        ELSE AllIndicators(render.stack) = [i \in 1..Len(render.s) |-> LineInd(render.s[i])]

\* with hiding on, a stack of a core file, the library and a file outside
\* the working directory came out as the one entry /usr/lib/x.js(3)
C11_Witness ==
    /\ Truthy(config.hiding)
    /\ Len(render.s) = 3
    /\ render.s[1].file = FileCore
    /\ render.s[2].file = FileLib
    /\ render.s[3].file = FileAbs
    /\ render.stack = <<<<"/", "usr/lib/x.js", "(", "3", ")">>>>

\* the frame separator in force, and the boundary separator
FrameSep == IF Truthy(config.frameSeparator) THEN config.frameSeparator.s ELSE " < "

FiberSep == IF Truthy(config.fiberSeparator) THEN config.fiberSeparator.s ELSE " << "

\* the meta of an error as the text shows it, with the space that follows
\* it: JSON for an object, the string form otherwise, nothing when not set
MetaText(m) ==
    IF ~Truthy(m) THEN << >>
    ELSE IF m.t = "obj"
    THEN (IF Truthy(config.prettyMeta)
          THEN <<"{", "\n", config.prettyMeta.s, m.s, "\n", "}", " ">>
          ELSE <<"{", m.s, "}", " ">>)
    ELSE <<ToStr(m), " ">>

\* the text of the boundary of the rendered error itself: the rendered text
\* up to the boundary separator that precedes the text of its prev
OwnText ==
    IF Truthy(errs[render.e.n].prev)
    THEN LET k == CHOOSE k \in 1..Len(render.text) :
                     /\ render.text[k] = FiberSep
                     /\ \A j \in 1..(k - 1) : render.text[j] # FiberSep
         IN SubSeq(render.text, 1, k - 1)
    ELSE render.text

\* C12 as stated: the text of one boundary is the message, the frame
\* separator, the meta and a space when a meta is attached, and the entries
\* joined by the frame separator, for every message, the empty one included.
C12_Original ==
    render.e # Undef =>
        OwnText = <<errs[render.e.n].message, FrameSep>>
                      \o MetaText(errs[render.e.n].meta)
                      \o Join(render.stack, FrameSep)

\* C12, amended: the text of one boundary is the message and the frame
\* separator when the message is not empty (nothing otherwise), then the
\* meta and one space when a meta is attached, then the entries joined by
\* the frame separator.
C12_BoundaryText ==
    render.e # Undef =>
        OwnText = (IF errs[render.e.n].message # ""
                   THEN <<errs[render.e.n].message, FrameSep>> ELSE << >>)
                      \o MetaText(errs[render.e.n].meta)
                      \o Join(render.stack, FrameSep)

\* the error with no message and the meta 'tag' was rendered with '\n' as
\* frame separator and two entries: its text starts with the meta
C12_Witness ==
    /\ render.e = ErrRef(4)
    /\ errs[4].message = "" /\ errs[4].meta = Str("tag")
    /\ config.frameSeparator = Str("\n")
    /\ Len(render.stack) = 2
    /\ SubSeq(render.text, 1, 2) = <<"tag", " ">>
    /\ OwnText = <<"tag", " ">> \o render.stack[1] \o <<"\n">> \o render.stack[2]

\* the text of the boundary of the error e alone, for the frames captured
\* for it
BoundaryText(e, frames) ==
    LET runs == Runs(Surviving(frames, config.hiding))
    IN (IF errs[e.n].message # "" THEN <<errs[e.n].message, FrameSep>> ELSE << >>)
           \o MetaText(errs[e.n].meta)
           \o Join([i \in 1..Len(runs) |-> EntryOf(runs[i], " < ")], FrameSep)

\* the boundary separator and the boundary text of every link of a chain
RECURSIVE ChainText(_, _)
ChainText(ch, sp) ==
    IF ch = << >> THEN << >>
    ELSE <<FiberSep>> \o BoundaryText(Head(ch), sp) \o ChainText(Tail(ch), sp)

\* the boundary separators of a text
Boundaries(text) == {k \in 1..Len(text) : text[k] = FiberSep}

\* C13: the rendered text of an error is the text of its own boundary and
\* then, for every link of its prev chain in order, the boundary separator
\* and the text of that link's boundary: one segment more than the chain is
\* long, the oldest origin last.
C13_WholeChainRendered ==
    render.e # Undef =>
        LET ch == Chain(errs, render.e, Len(errs))
        IN /\ Cardinality(Boundaries(render.text)) = Len(ch)
           /\ \E sp \in OriginFrameLists :
                 render.text = BoundaryText(render.e, render.s) \o ChainText(ch, sp)

\* an error whose prev has a prev of its own was rendered: three segments,
\* the last one the boundary of the oldest origin
C13_Witness ==
    /\ render.e = ErrRef(4)
    /\ Chain(errs, render.e, Len(errs)) = <<ErrRef(1), ErrRef(2)>>
    /\ Cardinality(Boundaries(render.text)) = 2
    /\ Len(render.s) = 1
    /\ \E sp \in OriginFrameLists :
          LET tail == BoundaryText(ErrRef(2), sp)
          IN SubSeq(render.text, Len(render.text) - Len(tail), Len(render.text))
                 = <<FiberSep>> \o tail

----------------------------------------------------------------------------
(* The claims about the links between errors. *)

\* the writes of the prev of the error e in the record ev of an operation
LinksOf(ev, e) == {j \in Events(ev, "setprev") : ev[j].v = e}

\* the hand-overs of the error e to a completion handler in ev
DeliveriesOf(ev, e) == {j \in Events(ev, "deliver") : ev[j].v = e}

\* the places of ev where a wrapper caught something raised, by the check
\* or by func
Catches(ev) == Events(ev, "caught") \cup Events(ev, "check")

\* C14 as stated: the prev of an error object is written at most once, and
\* never after the error was handed to a completion handler.
C14_Original ==
    \A i \in 1..Len(errs) :
        /\ Cardinality(LinksOf(last.ev, ErrRef(i))) <= 1
        /\ \A d \in DeliveriesOf(last.ev, ErrRef(i)) :
              \A j \in LinksOf(last.ev, ErrRef(i)) : j < d

\* C14, amended: the prev of an error object is written once at every
\* wrapper that catches it, also after it was handed to a completion handler,
\* and nowhere else: every catch is followed by the link of the caught error
\* (or of the Error made of a caught value that is none) to the catching
\* wrapper's origin, an error that no wrapper caught in an operation is left
\* as it was, and one that was caught ends with the origin of the last
\* wrapper that caught it as prev, its message and meta as they were.
C14_LinkedAtEveryCatch ==
    [][(last'.op = "call" /\ ncalls' = ncalls + 1) =>
          LET ev == last'.ev
          IN /\ \A j \in Catches(ev) :
                   /\ j < Len(ev)
                   /\ ev[j + 1].k = "setprev"
                   /\ ev[j + 1].w = ev[j].w
                   /\ ev[j + 1].f = wrappers'[ev[j].w].prev
                   /\ IsError(ev[j].v) => ev[j + 1].v = ev[j].v
             /\ Cardinality(Events(ev, "setprev")) = Cardinality(Catches(ev))
             /\ \A i \in 1..Len(errs') :
                   LET ls == LinksOf(ev, ErrRef(i))
                   IN IF ls = {}
                      THEN i <= Len(errs) => errs'[i] = errs[i]
                      ELSE LET m == CHOOSE j \in ls : \A k \in ls : k <= j
                           IN /\ errs'[i].prev = wrappers'[ev[m].w].prev
                              /\ i <= Len(errs) =>
                                    /\ errs'[i].message = errs[i].message
                                    /\ errs'[i].meta = errs[i].meta]_vars

\* an Error that func raised was linked by the wrapper that caught it, handed
\* to its completion handler, a checking wrapper, and linked again there
C14_Witness ==
    /\ last.op = "call"
    /\ \E i \in 1..Len(errs) :
          \E j1, j2 \in LinksOf(last.ev, ErrRef(i)) :
             \E d \in DeliveriesOf(last.ev, ErrRef(i)) :
                /\ j1 < d /\ d < j2
                /\ last.ev[d].f.t = "wrap"
                /\ last.ev[j1].w # last.ev[j2].w
                /\ errs[i].prev = wrappers[last.ev[j2].w].prev
                /\ errs[i].message = "fail"

\* C15: in every reachable state the prev links make no cycle: the chain that
\* starts at any error ends before it has more links than there are errors.
C15_Original ==
    \A i \in 1..Len(errs) :
        Len(Chain(errs, ErrRef(i), Len(errs) + 1)) <= Len(errs)

\* C16: a wrapper captures its origin once, when _x builds it: the origin is
\* a new Error, no other wrapper's, with no message and no prev; no later
\* step gives the wrapper another origin or builds a wrapper; and every error
\* a wrapper hands to its completion handler, in any call, has that origin as
\* prev when it is handed over.
C16_OriginCapturedOnce ==
    [][/\ \A w \in 1..Len(wrappers) :
             Len(wrappers') >= w /\ wrappers'[w].prev = wrappers[w].prev
       /\ (last'.op = "_x" /\ ncalls' = ncalls + 1 /\ last'.out.k = "ret") =>
             /\ Len(wrappers') = Len(wrappers) + 1
             /\ Len(errs') = Len(errs) + 1
             /\ wrappers'[Len(wrappers')].prev = ErrRef(Len(errs'))
             /\ errs'[Len(errs')] = [message |-> "", meta |-> Undef, prev |-> Undef]
       /\ (last'.op = "call" /\ ncalls' = ncalls + 1) =>
             /\ Len(wrappers') = Len(wrappers)
             /\ \A d \in Events(last'.ev, "deliver") :
                   /\ last'.ev[d].w \in 1..Len(wrappers)
                   /\ last'.ev[d].args = <<last'.ev[d].v, wrappers[last'.ev[d].w].prev>>]_vars

\* the one wrapper there is has handed over an error in each of two calls,
\* two different errors, both with its origin as prev
C16_Witness ==
    /\ last.op = "call"
    /\ ncalls = 3
    /\ Len(wrappers) = 1
    /\ \E d \in Events(last.ev, "deliver") :
          /\ last.ev[d].args[2] = wrappers[1].prev
          /\ \E i \in 1..Len(errs) :
                /\ ErrRef(i) # last.ev[d].v
                /\ ErrRef(i) # wrappers[1].prev
                /\ errs[i].prev = wrappers[1].prev
                /\ errs[last.ev[d].v.n].prev = wrappers[1].prev

----------------------------------------------------------------------------
(* The claims about what a call of a wrapper does. *)

\* C18: in every call of a wrapper in which the check does not raise (chk not
\* set, or a first argument that is not set), func is called right after the
\* handler resolution, once, with the arguments of the call as they are; and
\* when func returns, the wrapper hands nothing to a completion handler and
\* returns.
C18_FuncCalledWithAllArguments ==
    last.op = "call" =>
        \A i \in Invocations :
            LET w == last.ev[i].w
                a == last.ev[i].args
            IN (~Truthy(wrappers[w].chk) \/ ~Truthy(Arg(a, 1))) =>
                  /\ i < Len(last.ev)
                  /\ last.ev[i + 1].k = "func"
                  /\ last.ev[i + 1].w = w
                  /\ last.ev[i + 1].args = a
                  /\ Cardinality(EvOf("func", w)) = 1
                  /\ EvOf("check", w) = {}
                  /\ last.ev[i + 1].f = Fn("fRet") =>
                        /\ EvOf("deliver", w) = {}
                        /\ EvOf("raise", w) = {}
                        /\ EvOf("return", w) # {}
                        /\ i = 1 => last.out = Ret

\* a checking wrapper was called with null and a callback, and its func got
\* both and returned
C18_Witness ==
    /\ last.op = "call"
    /\ Truthy(wrappers[last.w].chk)
    /\ last.args = <<Null, Fn("h2")>>
    /\ \E j \in EvOf("func", last.w) :
          last.ev[j].args = <<Null, Fn("h2")>> /\ last.ev[j].f = Fn("fRet")
    /\ Events(last.ev, "deliver") = {}
    /\ last.out = Ret

\* C19: the completion handler a wrapper holds is never anything but a
\* function or a value that is not set, and whatever a wrapper hands an error
\* to is a function.
C19_HandlerIsFunctionOrAbsent ==
    /\ \A w \in 1..Len(wrappers) :
          ~Truthy(wrappers[w].cb) \/ IsFunction(wrappers[w].cb)
    /\ \A d \in Events(last.ev, "deliver") : IsFunction(last.ev[d].f)

\* a wrapper built without a handler has adopted the last argument of a
\* call, and _x has then refused a cb that is a string
C19_Witness ==
    /\ Len(wrappers) = 1
    /\ wrappers[1].cb0 = Null
    /\ IsFunction(wrappers[1].cb)
    /\ last.op = "_x"
    /\ last.args[1] = Str("x")
    /\ IsFunction(last.args[3])
    /\ last.out.k = "throw"

----------------------------------------------------------------------------
(* The claim about installing the formatter again. *)

\* the meta of an error as a formatter installed with the indent pretty
\* shows it
MetaTextWith(m, pretty) ==
    IF ~Truthy(m) THEN << >>
    ELSE IF m.t = "obj"
    THEN (IF Truthy(pretty) THEN <<"{", "\n", pretty.s, m.s, "\n", "}", " ">>
          ELSE <<"{", m.s, "}", " ">>)
    ELSE <<ToStr(m), " ">>

====
